---- MODULE Spec2Model ----
(***************************************************************************)
(* A model of goldmark's util package (src/util/util.go): the byte-level   *)
(* scanners and escapers.  Bytes are the integers 0..255, a byte window is *)
(* a sequence of bytes, and every Go function is an operator that walks    *)
(* the window the way the Go loop does.  Go indexes from 0, so At(b, i)    *)
(* reads b[i] and Slice(b, lo, hi) is b[lo:hi].                            *)
(*                                                                         *)
(* The state machine is the caller's view: a window is handed over         *)
(* (pc = "ready"), one operation is applied to it, and its result is kept  *)
(* in ret together with the arguments in arg.                              *)
(***************************************************************************)
EXTENDS Integers, Sequences, FiniteSets, TLC

VARIABLES pc, src, arg, ret

vars == <<pc, src, arg, ret>>

(***************************************************************************)
(* Bounds of the model.                                                    *)
(***************************************************************************)
MaxClosureLen == 4

MaxAttrLen == 4

MaxTokenLen == 4

MaxTokens == 3

MaxRefLen == 5

MaxDigits == 8

MaxHexDigits == 6

MaxEscLen == 4

MaxScheme == 34

MaxTail == 3

MaxCowSource == 2

MaxWrites == 3

MaxWriteLen == 2

MaxSpacesLen == 5

(***************************************************************************)
(* Bytes.                                                                  *)
(***************************************************************************)
Ch ==
  [ tab |-> 9, nl |-> 10, sp |-> 32, dquote |-> 34, hash |-> 35,
    dollar |-> 36, percent |-> 37, amp |-> 38, squote |-> 39, lparen |-> 40, rparen |-> 41,
    plus |-> 43, minus |-> 45, dot |-> 46, slash |-> 47, zero |-> 48, one |-> 49,
    four |-> 52, five |-> 53, six |-> 54, eight |-> 56, nine |-> 57,
    colon |-> 58, semi |-> 59, lt |-> 60, eq |-> 61, gt |-> 62,
    A |-> 65, D |-> 68, F |-> 70, G |-> 71, X |-> 88, Z |-> 90,
    lbracket |-> 91, caret |-> 94,
    bslash |-> 92, underscore |-> 95, btick |-> 96,
    a |-> 97, b |-> 98, c |-> 99, d |-> 100, e |-> 101, f |-> 102,
    i |-> 105, k |-> 107, l |-> 108, s |-> 115, v |-> 118,
    x |-> 120, y |-> 121, z |-> 122, lbrace |-> 123, rbrace |-> 125,
    tilde |-> 126, del |-> 127, cont |-> 128, lead2 |-> 195 ]

At(b, i) == b[i + 1]

Slice(b, lo, hi) == SubSeq(b, lo + 1, hi)

BoundedSeq(S, n) == UNION { [1..m -> S] : m \in 0..n }

(***************************************************************************)
(* Character classification tables.                                        *)
(***************************************************************************)
IsSpace(c) == c \in (9..13) \cup {32}

IsPunct(c) == c \in (33..47) \cup (58..64) \cup (91..96) \cup (123..126)

IsNumeric(c) == c >= Ch.zero /\ c <= Ch.nine

IsHexDecimal(c) ==
  \/ c >= Ch.zero /\ c <= Ch.nine
  \/ c >= Ch.a /\ c <= Ch.f
  \/ c >= Ch.A /\ c <= Ch.F

IsAlpha(c) == (c >= Ch.a /\ c <= Ch.z) \/ (c >= Ch.A /\ c <= Ch.Z)

IsAlphaNumeric(c) == IsAlpha(c) \/ (c >= Ch.zero /\ c <= Ch.nine)

BytesWhere ==
  [pred \in {"IsNumeric", "IsHexDecimal", "IsAlphaNumeric"} |->
     {c \in 0..255 :
        CASE pred = "IsNumeric" -> IsNumeric(c)
          [] pred = "IsHexDecimal" -> IsHexDecimal(c)
          [] pred = "IsAlphaNumeric" -> IsAlphaNumeric(c)}]

(***************************************************************************)
(* IsEscapedPunctuation(source, i)                                         *)
(***************************************************************************)
IsEscapedPunctuation(source, i) ==
  At(source, i) = Ch.bslash /\ i < Len(source) - 1 /\ IsPunct(At(source, i + 1))

(***************************************************************************)
(* FindClosure.  BacktickRunEnd is the inner "for ; i < len(bs); i++" that *)
(* counts a run of backticks: it returns the index where the loop stops.   *)
(* FindClosureFrom is one turn of the outer loop at (i, opened,            *)
(* codeSpanOpener).                                                        *)
(***************************************************************************)
RECURSIVE BacktickRunEnd(_, _)
BacktickRunEnd(bs, i) ==
  IF i < Len(bs) /\ At(bs, i) = Ch.btick THEN BacktickRunEnd(bs, i + 1) ELSE i

RECURSIVE FindClosureFrom(_, _, _, _, _, _, _, _)
FindClosureFrom(bs, opener, closure, codeSpan, allowNesting, i, opened, codeSpanOpener) ==
  IF ~(i < Len(bs)) THEN -1
  ELSE
    LET c == At(bs, i) IN
    IF codeSpan /\ codeSpanOpener # 0 /\ c = Ch.btick THEN
      LET j == BacktickRunEnd(bs, i)
          codeSpanCloser == j - i
      IN  FindClosureFrom(bs, opener, closure, codeSpan, allowNesting, j + 1, opened,
                          IF codeSpanCloser = codeSpanOpener THEN 0 ELSE codeSpanOpener)
    ELSE IF c = Ch.bslash /\ i < Len(bs) - 1 /\ IsPunct(At(bs, i + 1)) THEN
      FindClosureFrom(bs, opener, closure, codeSpan, allowNesting, i + 2, opened,
                      codeSpanOpener)
    ELSE IF codeSpan /\ codeSpanOpener = 0 /\ c = Ch.btick THEN
      LET j == BacktickRunEnd(bs, i)
      IN  FindClosureFrom(bs, opener, closure, codeSpan, allowNesting, j + 1, opened,
                          codeSpanOpener + (j - i))
    ELSE IF (codeSpan /\ codeSpanOpener = 0) \/ ~codeSpan THEN
      IF c = closure THEN
        IF opened - 1 = 0 THEN i
        ELSE FindClosureFrom(bs, opener, closure, codeSpan, allowNesting, i + 1,
                             opened - 1, codeSpanOpener)
      ELSE IF c = opener THEN
        IF ~allowNesting THEN -1
        ELSE FindClosureFrom(bs, opener, closure, codeSpan, allowNesting, i + 1,
                             opened + 1, codeSpanOpener)
      ELSE FindClosureFrom(bs, opener, closure, codeSpan, allowNesting, i + 1, opened,
                           codeSpanOpener)
    ELSE FindClosureFrom(bs, opener, closure, codeSpan, allowNesting, i + 1, opened,
                         codeSpanOpener)

FindClosureOpenedZero(bs, opener, closure, codeSpan, allowNesting) ==
  FindClosureFrom(bs, opener, closure, codeSpan, allowNesting, 0, 0, 0)

FindClosure(bs, opener, closure, codeSpan, allowNesting) ==
  FindClosureFrom(bs, opener, closure, codeSpan, allowNesting, 0, 1, 0)

(***************************************************************************)
(* IsBlank(bs)                                                             *)
(***************************************************************************)
IsBlank(bs) == \A n \in 1..Len(bs) : IsSpace(bs[n])

(***************************************************************************)
(* The scanning loops of the attribute parser.  Each returns the index at  *)
(* which the Go loop stops.                                                *)
(***************************************************************************)
RECURSIVE SkipSpaces(_, _)
SkipSpaces(b, i) ==
  IF i < Len(b) /\ IsSpace(At(b, i)) THEN SkipSpaces(b, i + 1) ELSE i

RECURSIVE AttrTokenEndNoDash(_, _)
AttrTokenEndNoDash(b, i) ==
  IF i < Len(b) /\ ~IsSpace(At(b, i))
       /\ (~IsPunct(At(b, i)) \/ At(b, i) = Ch.underscore)
  THEN AttrTokenEndNoDash(b, i + 1)
  ELSE i

RECURSIVE AttrTokenEnd(_, _)
AttrTokenEnd(b, i) ==
  IF i < Len(b) /\ ~IsSpace(At(b, i))
       /\ (~IsPunct(At(b, i)) \/ At(b, i) = Ch.underscore \/ At(b, i) = Ch.minus)
  THEN AttrTokenEnd(b, i + 1)
  ELSE i

IsAttrNameStart(c) == IsAlpha(c) \/ c = Ch.underscore \/ c = Ch.colon

IsAttrNameByte(c) ==
  \/ IsAlpha(c)
  \/ c >= Ch.zero /\ c <= Ch.nine
  \/ c = Ch.underscore \/ c = Ch.colon \/ c = Ch.dot \/ c = Ch.minus

RECURSIVE AttrNameEnd(_, _)
AttrNameEnd(b, i) ==
  IF i < Len(b) /\ IsAttrNameByte(At(b, i)) THEN AttrNameEnd(b, i + 1) ELSE i

RECURSIVE ScanToByte(_, _, _)
ScanToByte(b, i, q) ==
  IF i < Len(b) /\ At(b, i) # q THEN ScanToByte(b, i + 1, q) ELSE i

EndsBareValue(c) ==
  \/ c = Ch.bslash \/ c = Ch.dquote \/ c = Ch.squote
  \/ c = Ch.eq \/ c = Ch.lt \/ c = Ch.gt \/ c = Ch.btick
  \/ c = Ch.lbrace \/ c = Ch.rbrace
  \/ (c >= 0 /\ c <= 32)

RECURSIVE BareValueEnd(_, _)
BareValueEnd(b, i) ==
  IF i < Len(b) /\ ~EndsBareValue(At(b, i)) THEN BareValueEnd(b, i + 1) ELSE i

NotFound == <<-1, -1, -1, -1>>

NoAttribute == [ai |-> NotFound, skip |-> 0]

(***************************************************************************)
(* FindHTMLAttributeIndex.  QuotedAttrValue is the branch taken at an      *)
(* opening quote q, with i already past it; the Go code holds it twice,    *)
(* once for each quote character.                                          *)
(***************************************************************************)
QuotedAttrValue(b, canEscapeQuotes, nameStart, nameEnd, i, q) ==
  LET l == Len(b) IN
  IF canEscapeQuotes THEN
    LET pos == FindClosure(Slice(b, i, l), q, q, FALSE, FALSE) IN
    IF pos < 0 THEN NoAttribute
    ELSE [ai |-> <<nameStart, nameEnd, i, pos + i>>, skip |-> 1]
  ELSE
    LET e == ScanToByte(b, i, q) IN
    IF i = e \/ (e = l /\ At(b, l - 1) # q) THEN NoAttribute
    ELSE [ai |-> <<nameStart, nameEnd, i, e>>, skip |-> 1]

FindHTMLAttributeIndex(b, canEscapeQuotes) ==
  LET l == Len(b)
      i0 == SkipSpaces(b, 0)
  IN
  IF i0 >= l THEN NoAttribute
  ELSE IF ~IsAttrNameStart(At(b, i0)) THEN NoAttribute
  ELSE
    LET i1 == AttrNameEnd(b, i0)
        i2 == SkipSpaces(b, i1)
    IN
    IF i2 >= l THEN NoAttribute
    ELSE IF At(b, i2) # Ch.eq THEN NoAttribute
    ELSE
      LET i3 == SkipSpaces(b, i2 + 1) IN
      IF i3 >= l THEN NoAttribute
      ELSE IF At(b, i3) = Ch.dquote THEN
        QuotedAttrValue(b, canEscapeQuotes, i0, i1, i3 + 1, Ch.dquote)
      ELSE IF At(b, i3) = Ch.squote THEN
        QuotedAttrValue(b, canEscapeQuotes, i0, i1, i3 + 1, Ch.squote)
      ELSE
        LET e == BareValueEnd(b, i3) IN
        IF i3 = e THEN NoAttribute
        ELSE [ai |-> <<i0, i1, i3, e>>, skip |-> 0]

(***************************************************************************)
(* FindAttributeIndex                                                      *)
(***************************************************************************)
FindAttributeIndex(b, canEscapeQuotes) ==
  LET l == Len(b)
      i == SkipSpaces(b, 0)
  IN
  IF i >= l THEN NoAttribute
  ELSE IF At(b, i) = Ch.hash \/ At(b, i) = Ch.dot THEN
    [ai |-> <<i, i + 1, i + 1, AttrTokenEnd(b, i + 1)>>, skip |-> 0]
  ELSE FindHTMLAttributeIndex(b, canEscapeQuotes)

(***************************************************************************)
(* FindAttributeIndiciesReverse.  FindOpenBrace is the first loop (it      *)
(* returns as, -1 when no unescaped '{' is left), ReadAttributes the       *)
(* second, and AttributesFrom one pass from the retry label with the       *)
(* current i.  The read of b[as] after the second loop is not guarded: it  *)
(* panics when as = len(b).                                                *)
(***************************************************************************)
RECURSIVE FindOpenBrace(_, _)
FindOpenBrace(b, i) ==
  IF ~(i < Len(b)) THEN -1
  ELSE IF IsEscapedPunctuation(b, i) THEN FindOpenBrace(b, i + 2)
  ELSE IF At(b, i) = Ch.lbrace THEN i + 1
  ELSE FindOpenBrace(b, i + 1)

NextAttrStartNoSkip(as, ai, skip) == as + ai[4]

NextAttrStart(as, ai, skip) == as + ai[4] + skip

RECURSIVE ReadAttributes(_, _, _, _, _)
ReadAttributes(b, canEscapeQuotes, as, i, result) ==
  IF ~(as < Len(b)) THEN [as |-> as, i |-> i, result |-> result]
  ELSE
    LET r == FindAttributeIndex(Slice(b, as, Len(b)), canEscapeQuotes)
        ai == r.ai
    IN
    IF ai[1] < 0 THEN [as |-> as, i |-> i, result |-> result]
    ELSE ReadAttributes(b, canEscapeQuotes, NextAttrStart(as, ai, r.skip), as + ai[4],
                        Append(result, <<as + ai[1], as + ai[2], as + ai[3], as + ai[4]>>))

RECURSIVE AttributesFrom(_, _, _)
AttributesFrom(b, canEscapeQuotes, i) ==
  LET as == FindOpenBrace(b, i) IN
  IF as < 0 THEN [panic |-> FALSE, result |-> <<>>]
  ELSE
    LET st == ReadAttributes(b, canEscapeQuotes, as, as, <<>>) IN
    IF ~(st.as < Len(b)) THEN [panic |-> TRUE, result |-> <<>>]
    ELSE IF /\ At(b, st.as) = Ch.rbrace
            /\ (st.as > Len(b) - 2 \/ IsBlank(Slice(b, st.as, Len(b))))
    THEN [panic |-> FALSE, result |-> st.result]
    ELSE AttributesFrom(b, canEscapeQuotes, st.i)

FindAttributeIndiciesReverse(b, canEscapeQuotes) ==
  AttributesFrom(b, canEscapeQuotes, 0)

(***************************************************************************)
(* CopyOnWriteBuffer: the buffer and the copied flag.  The first write     *)
(* replaces the borrowed source by a fresh empty buffer.                   *)
(***************************************************************************)
NewCopyOnWriteBuffer(buffer) == [buffer |-> buffer, copied |-> FALSE]

WriteKeepsSource(cob, value) ==
  [buffer |-> cob.buffer \o value, copied |-> TRUE]

Write(cob, value) ==
  [buffer |-> (IF cob.copied THEN cob.buffer ELSE <<>>) \o value, copied |-> TRUE]

WriteByte(cob, c) ==
  [buffer |-> Append(IF cob.copied THEN cob.buffer ELSE <<>>, c), copied |-> TRUE]

Bytes(cob) == cob.buffer

IsCopied(cob) == cob.copied

(***************************************************************************)
(* ReplaceSpaces.  out (the code's ret) is nil until the first run of      *)
(* spaces that has a byte after it; start is the index where the current   *)
(* run began, or -1.                                                       *)
(***************************************************************************)
RECURSIVE ReplaceSpacesFrom(_, _, _, _, _)
ReplaceSpacesFrom(source, repl, i, start, out) ==
  IF ~(i < Len(source))
  THEN IF start >= 0 /\ ~out.isNil
       THEN [isNil |-> FALSE, bytes |-> Append(out.bytes, repl)]
       ELSE out
  ELSE
    LET c == At(source, i)
        iss == IsSpace(c)
    IN
    IF start < 0 /\ iss THEN ReplaceSpacesFrom(source, repl, i + 1, i, out)
    ELSE IF start >= 0 /\ iss THEN ReplaceSpacesFrom(source, repl, i + 1, start, out)
    ELSE IF start >= 0
    THEN LET made == IF out.isNil THEN Slice(source, 0, start) ELSE out.bytes
         IN  ReplaceSpacesFrom(source, repl, i + 1, -1,
                               [isNil |-> FALSE, bytes |-> Append(Append(made, repl), c)])
    ELSE ReplaceSpacesFrom(source, repl, i + 1, start,
                           IF out.isNil THEN out
                           ELSE [isNil |-> FALSE, bytes |-> Append(out.bytes, c)])

ReplaceSpaces(source, repl) ==
  LET out == ReplaceSpacesFrom(source, repl, 0, -1, [isNil |-> TRUE, bytes |-> <<>>])
  IN  IF out.isNil THEN [bytes |-> source, copied |-> FALSE]
      ELSE [bytes |-> out.bytes, copied |-> TRUE]

(***************************************************************************)
(* ReadWhile(source, [lo, hi], pred): the index where the loop stops and   *)
(* whether pred held at least once.  A predicate on bytes is passed as the *)
(* set of the bytes it holds of.                                           *)
(***************************************************************************)
ReadWhile(source, lo, hi, pred) ==
  LET stops == {j \in lo..(hi - 1) : At(source, j) \notin pred}
      j == IF lo >= hi THEN lo
           ELSE IF stops = {} THEN hi
           ELSE CHOOSE m \in stops : \A n \in stops : m <= n
  IN  [i |-> j, ok |-> j > lo]

(***************************************************************************)
(* Runes.  ToValidRune and utf8.EncodeRune.  strconv.ParseUint(s, base,    *)
(* 32) on a string of digits: base 0 reads a leading "0" as the octal      *)
(* prefix, a digit that is not below the base is a syntax error (value 0), *)
(* and a value out of range is reported as the largest one.  Every value   *)
(* above MaxRune, wrapped by rune(v) or not, is an invalid rune, so such   *)
(* values are kept as AboveMaxRune.                                        *)
(***************************************************************************)
MaxRune == 1114111

AboveMaxRune == 1114112

RuneError == 65533

ValidRune(r) == (0 <= r /\ r < 55296) \/ (57343 < r /\ r <= MaxRune)

ToValidRune(v) == IF v = 0 \/ ~ValidRune(v) THEN RuneError ELSE v

EncodeRune(r) ==
  IF r < 128 THEN <<r>>
  ELSE IF r < 2048 THEN <<192 + (r \div 64), 128 + (r % 64)>>
  ELSE IF r < 65536 THEN
    <<224 + (r \div 4096), 128 + ((r \div 64) % 64), 128 + (r % 64)>>
  ELSE
    <<240 + (r \div 262144), 128 + ((r \div 4096) % 64),
      128 + ((r \div 64) % 64), 128 + (r % 64)>>

DigitValue(c) ==
  IF c >= Ch.zero /\ c <= Ch.nine THEN c - Ch.zero
  ELSE IF c >= Ch.a /\ c <= Ch.z THEN c - Ch.a + 10
  ELSE c - Ch.A + 10

RECURSIVE ParseDigits(_, _, _, _)
ParseDigits(s, base, k, n) ==
  IF k > Len(s) THEN n
  ELSE IF DigitValue(s[k]) >= base THEN 0
  ELSE LET n1 == n * base + DigitValue(s[k])
       IN  ParseDigits(s, base, k + 1, IF n1 > MaxRune THEN AboveMaxRune ELSE n1)

ParseUint(s, base) ==
  IF s = <<>> THEN 0
  ELSE IF base = 0 THEN
    IF s[1] = Ch.zero THEN ParseDigits(Tail(s), 8, 1, 0)
    ELSE ParseDigits(s, 10, 1, 0)
  ELSE ParseDigits(s, base, 1, 0)

(***************************************************************************)
(* ResolveNumericReferences.  ResolveFrom is one turn of the loop at i,    *)
(* with n the start of the bytes not yet written; it gives the buffer and  *)
(* n at the end of the loop, or a panic: source[nnext] is read before      *)
(* nnext < limit is tested.                                                *)
(***************************************************************************)
RECURSIVE ResolveFrom(_, _, _, _)
ResolveFrom(source, i, n, cob) ==
  LET limit == Len(source) IN
  IF ~(i < limit) THEN [panic |-> FALSE, cob |-> cob, n |-> n]
  ELSE IF At(source, i) # Ch.amp THEN ResolveFrom(source, i + 1, n, cob)
  ELSE
    LET pos == i
        next == i + 1
    IN
    IF ~(next < limit /\ At(source, next) = Ch.hash)
    THEN ResolveFrom(source, (next - 1) + 1, n, cob)
    ELSE
      LET nnext == next + 1 IN
      IF ~(nnext < limit) THEN [panic |-> TRUE, cob |-> cob, n |-> n]
      ELSE
        LET nc == At(source, nnext) IN
        IF (nnext < limit /\ nc = Ch.x) \/ nc = Ch.X THEN
          LET start == nnext + 1
              rw == ReadWhile(source, start, limit, BytesWhere["IsHexDecimal"])
          IN
          IF rw.ok /\ rw.i < limit /\ At(source, rw.i) = Ch.semi THEN
            LET v == ParseUint(Slice(source, start, rw.i), 16)
            IN  ResolveFrom(source, rw.i + 1, rw.i + 1,
                            Write(Write(cob, Slice(source, n, pos)),
                                  EncodeRune(ToValidRune(v))))
          ELSE ResolveFrom(source, (next - 1) + 1, n, cob)
        ELSE IF nc >= Ch.zero /\ nc <= Ch.nine THEN
          LET start == nnext
              rw == ReadWhile(source, start, limit, BytesWhere["IsNumeric"])
          IN
          IF rw.ok /\ rw.i < limit /\ rw.i - start < 8 /\ At(source, rw.i) = Ch.semi THEN
            LET v == ParseUint(Slice(source, start, rw.i), 0)
            IN  ResolveFrom(source, rw.i + 1, rw.i + 1,
                            Write(Write(cob, Slice(source, n, pos)),
                                  EncodeRune(ToValidRune(v))))
          ELSE ResolveFrom(source, (next - 1) + 1, n, cob)
        ELSE ResolveFrom(source, (next - 1) + 1, n, cob)

ResolveNumericReferences(source) ==
  LET r == ResolveFrom(source, 0, 0, NewCopyOnWriteBuffer(source)) IN
  IF r.panic THEN [panic |-> TRUE, bytes |-> <<>>, copied |-> FALSE]
  ELSE
    LET cob == IF IsCopied(r.cob)
               THEN Write(r.cob, Slice(source, r.n, Len(source)))
               ELSE r.cob
    IN  [panic |-> FALSE, bytes |-> Bytes(cob), copied |-> IsCopied(cob)]

(***************************************************************************)
(* EscapeHTML.  htmlEscapeTable holds an entity for '"', '&', '<' and '>'  *)
(* and nil (here the empty sequence) for every other byte.  EscapeFrom is  *)
(* one turn of the loop.  The result is the buffer's bytes and whether     *)
(* they are a copy (copied = FALSE: the window that was passed in).        *)
(***************************************************************************)
htmlEscapeTable(c) ==
  IF c = Ch.dquote THEN <<Ch.amp, 113, 117, 111, 116, Ch.semi>>
  ELSE IF c = Ch.amp THEN <<Ch.amp, Ch.a, 109, 112, Ch.semi>>
  ELSE IF c = Ch.lt THEN <<Ch.amp, Ch.l, 116, Ch.semi>>
  ELSE IF c = Ch.gt THEN <<Ch.amp, 103, 116, Ch.semi>>
  ELSE <<>>

Finish(cob, v, n) ==
  LET done == IF IsCopied(cob) THEN Write(cob, Slice(v, n, Len(v))) ELSE cob
  IN  [panic |-> FALSE, bytes |-> Bytes(done), copied |-> IsCopied(done)]

FinishAlways(cob, v, n) ==
  LET done == Write(cob, Slice(v, n, Len(v)))
  IN  [panic |-> FALSE, bytes |-> Bytes(done), copied |-> IsCopied(done)]

RECURSIVE EscapeFrom(_, _, _, _)
EscapeFrom(v, i, n, cob) ==
  IF ~(i < Len(v)) THEN [cob |-> cob, n |-> n]
  ELSE
    LET escaped == htmlEscapeTable(At(v, i)) IN
    IF escaped # <<>>
    THEN EscapeFrom(v, i + 1, i + 1, Write(Write(cob, Slice(v, n, i)), escaped))
    ELSE EscapeFrom(v, i + 1, n, cob)

EscapeHTMLAlwaysCopies(v) ==
  LET r == EscapeFrom(v, 0, 0, NewCopyOnWriteBuffer(v)) IN FinishAlways(r.cob, v, r.n)

EscapeHTML(v) ==
  LET r == EscapeFrom(v, 0, 0, NewCopyOnWriteBuffer(v)) IN Finish(r.cob, v, r.n)

(***************************************************************************)
(* UnescapePunctuations                                                    *)
(***************************************************************************)
RECURSIVE UnescapeFrom(_, _, _, _)
UnescapeFrom(source, i, n, cob) ==
  LET limit == Len(source) IN
  IF ~(i < limit) THEN [cob |-> cob, n |-> n]
  ELSE IF i < limit - 1 /\ At(source, i) = Ch.bslash /\ IsPunct(At(source, i + 1))
  THEN UnescapeFrom(source, i + 2, i + 2,
                    WriteByte(Write(cob, Slice(source, n, i)), At(source, i + 1)))
  ELSE UnescapeFrom(source, i + 1, n, cob)

RECURSIVE UnescapeAnyFrom(_, _, _, _)
UnescapeAnyFrom(source, i, n, cob) ==
  LET limit == Len(source) IN
  IF ~(i < limit) THEN [cob |-> cob, n |-> n]
  ELSE IF i < limit - 1 /\ At(source, i) = Ch.bslash
  THEN UnescapeAnyFrom(source, i + 2, i + 2,
                       WriteByte(Write(cob, Slice(source, n, i)), At(source, i + 1)))
  ELSE UnescapeAnyFrom(source, i + 1, n, cob)

UnescapeAnyByte(source) ==
  LET r == UnescapeAnyFrom(source, 0, 0, NewCopyOnWriteBuffer(source))
  IN  Finish(r.cob, source, r.n)

UnescapePunctuations(source) ==
  LET r == UnescapeFrom(source, 0, 0, NewCopyOnWriteBuffer(source))
  IN  Finish(r.cob, source, r.n)

(***************************************************************************)
(* ResolveEntityNames.  The entity table (LookUpHTML5EntityByName) is not  *)
(* part of this file; two of its entries stand for it.                     *)
(***************************************************************************)
LookUpHTML5EntityByName(name) ==
  IF name = <<Ch.a, 109, 112>> THEN [ok |-> TRUE, Characters |-> <<Ch.amp>>]
  ELSE IF name = <<Ch.l, 116>> THEN [ok |-> TRUE, Characters |-> <<Ch.lt>>]
  ELSE [ok |-> FALSE, Characters |-> <<>>]

RECURSIVE EntityFrom(_, _, _, _)
EntityFrom(source, i, n, cob) ==
  LET limit == Len(source) IN
  IF ~(i < limit) THEN [cob |-> cob, n |-> n]
  ELSE IF At(source, i) # Ch.amp THEN EntityFrom(source, i + 1, n, cob)
  ELSE
    LET pos == i
        next == i + 1
    IN
    IF next < limit /\ At(source, next) = Ch.hash
    THEN EntityFrom(source, (next - 1) + 1, n, cob)
    ELSE
      LET rw == ReadWhile(source, next, limit, BytesWhere["IsAlphaNumeric"])
          entity == LookUpHTML5EntityByName(Slice(source, next, rw.i))
      IN
      IF rw.ok /\ rw.i < limit /\ At(source, rw.i) = Ch.semi /\ entity.ok
      THEN EntityFrom(source, rw.i + 1, rw.i + 1,
                      Write(Write(cob, Slice(source, n, pos)), entity.Characters))
      ELSE EntityFrom(source, (next - 1) + 1, n, cob)

ResolveEntityNames(source) ==
  LET r == EntityFrom(source, 0, 0, NewCopyOnWriteBuffer(source))
  IN  Finish(r.cob, source, r.n)

(***************************************************************************)
(* URLEscape.  urlEscapeTable marks the bytes that are passed through;     *)
(* utf8lenTable gives the length a lead byte announces, 99 for a byte that *)
(* is no lead byte.  url.QueryEscape keeps letters, digits, '-', '_', '.'  *)
(* and '~', turns a space into '+' and any other byte into %XX.  When the  *)
(* announced length runs past the end of v, v[i : i+u8len] panics if it    *)
(* passes the capacity and v[n:] panics after the loop if it does not.     *)
(***************************************************************************)
urlEscapeTable(c) ==
  IF c \in {33, 35, 36} \cup (38..59) \cup {61} \cup (63..90) \cup {95}
             \cup (97..122) \cup {126}
  THEN 1 ELSE 0

utf8lenTable(c) ==
  IF c <= 127 THEN 1
  ELSE IF c >= 194 /\ c <= 223 THEN 2
  ELSE IF c >= 224 /\ c <= 239 THEN 3
  ELSE IF c >= 240 /\ c <= 247 THEN 4
  ELSE 99

UpperHex(d) == IF d < 10 THEN Ch.zero + d ELSE Ch.A + (d - 10)

RECURSIVE QueryEscape(_)
QueryEscape(s) ==
  IF s = <<>> THEN <<>>
  ELSE
    LET c == Head(s) IN
    (IF IsAlphaNumeric(c) \/ c \in {Ch.minus, Ch.underscore, Ch.dot, Ch.tilde}
     THEN <<c>>
     ELSE IF c = Ch.sp THEN <<Ch.plus>>
     ELSE <<Ch.percent, UpperHex(c \div 16), UpperHex(c % 16)>>)
      \o QueryEscape(Tail(s))

htmlSpace == <<Ch.percent, 50, 48>>

RECURSIVE URLEscapeFrom(_, _, _, _)
URLEscapeFrom(v, i, n, cob) ==
  LET limit == Len(v) IN
  IF ~(i < limit) THEN [panic |-> FALSE, cob |-> cob, n |-> n]
  ELSE
    LET c == At(v, i)
        u8len == utf8lenTable(c)
    IN
    IF urlEscapeTable(c) = 1 THEN URLEscapeFrom(v, i + 1, n, cob)
    ELSE IF /\ c = Ch.percent
            /\ i + 2 < limit
            /\ IsHexDecimal(At(v, i + 1))
            /\ IsHexDecimal(At(v, i + 1))
    THEN URLEscapeFrom(v, i + 3, n, cob)
    ELSE IF u8len = 99 THEN URLEscapeFrom(v, i + 1, n, cob)
    ELSE IF c = Ch.sp
    THEN URLEscapeFrom(v, i + 1, i + 1, Write(Write(cob, Slice(v, n, i)), htmlSpace))
    ELSE IF i + u8len > limit THEN [panic |-> TRUE, cob |-> cob, n |-> n]
    ELSE URLEscapeFrom(v, i + u8len, i + u8len,
                       Write(Write(cob, Slice(v, n, i)),
                             QueryEscape(Slice(v, i, i + u8len))))

Panicked == [panic |-> TRUE, bytes |-> <<>>, copied |-> FALSE]

URLEscapeResolved(v, copied) ==
  LET r == URLEscapeFrom(v, 0, 0, NewCopyOnWriteBuffer(v)) IN
  IF r.panic THEN Panicked
  ELSE LET out == Finish(r.cob, v, r.n)
       IN  [out EXCEPT !.copied = out.copied \/ copied]

URLEscape(v, resolveReference) ==
  IF ~resolveReference THEN URLEscapeResolved(v, FALSE)
  ELSE
    LET v1 == UnescapePunctuations(v)
        v2 == ResolveNumericReferences(v1.bytes)
    IN
    IF v2.panic THEN Panicked
    ELSE LET v3 == ResolveEntityNames(v2.bytes)
         IN  URLEscapeResolved(v3.bytes, v1.copied \/ v2.copied \/ v3.copied)

(***************************************************************************)
(* FindURLIndex.  urlTable: bit 4 marks a scheme byte, bits 4, 2 and 1 a   *)
(* letter, bit 1 a byte a URL may hold.                                    *)
(***************************************************************************)
urlTable(c) ==
  IF IsAlpha(c) THEN 7
  ELSE IF c \in {43, 45, 46} \cup (48..57) THEN 5
  ELSE IF c <= 32 \/ c = Ch.lt \/ c = Ch.gt THEN 0
  ELSE 1

IsSchemeByte(c) == urlTable(c) \in {4, 5, 6, 7}

IsURLByte(c) == urlTable(c) \in {1, 3, 5, 7}

RECURSIVE SchemeEnd(_, _)
SchemeEnd(b, i) ==
  IF i < Len(b) /\ IsSchemeByte(At(b, i)) THEN SchemeEnd(b, i + 1) ELSE i

RECURSIVE URLEnd(_, _)
URLEnd(b, i) ==
  IF i < Len(b) /\ IsURLByte(At(b, i)) THEN URLEnd(b, i + 1) ELSE i

FindURLIndex(b) ==
  IF ~(Len(b) > 0 /\ urlTable(At(b, 0)) = 7) THEN -1
  ELSE
    LET i == SchemeEnd(b, 1) IN
    IF i = 1 \/ i > 33 \/ i >= Len(b) THEN -1
    ELSE IF At(b, i) # Ch.colon THEN -1
    ELSE URLEnd(b, i + 1)

(***************************************************************************)
(* The windows and delimiter pairs FindClosure is applied to: every window *)
(* of up to MaxClosureLen bytes over a letter, the parentheses, the double *)
(* quote, the backslash and the backtick, and the windows of the           *)
(* documented examples.  The delimiter pairs are the parentheses and the   *)
(* double quote used as both opener and closure, as                        *)
(* FindHTMLAttributeIndex calls it.                                        *)
(***************************************************************************)
ClosureAlphabet ==
  {Ch.a, Ch.lparen, Ch.rparen, Ch.dquote, Ch.bslash, Ch.btick}

ExampleNested ==
  <<Ch.a, Ch.lparen, Ch.b, Ch.rparen, Ch.c, Ch.rparen, Ch.b>>

ExampleNestedEscaped ==
  <<Ch.lparen, Ch.bslash, Ch.rparen, Ch.rparen, Ch.rparen, Ch.a>>

ExampleEscaped == <<Ch.a, Ch.bslash, Ch.rparen, Ch.b, Ch.rparen>>

ExampleCodeSpan == <<Ch.btick, Ch.a, Ch.rparen, Ch.b, Ch.btick, Ch.rparen>>

ClosureInputs ==
  BoundedSeq(ClosureAlphabet, MaxClosureLen)
    \cup {ExampleNested, ExampleNestedEscaped, ExampleEscaped, ExampleCodeSpan}

ClosureDelims == {<<Ch.lparen, Ch.rparen>>, <<Ch.dquote, Ch.dquote>>}

InitClosure ==
  /\ pc = "ready"
  /\ src \in ClosureInputs
  /\ arg = <<>>
  /\ ret = <<>>

CallFindClosure ==
  /\ pc = "ready"
  /\ \E d \in ClosureDelims, codeSpan \in BOOLEAN, allowNesting \in BOOLEAN :
       /\ arg' = [opener |-> d[1], closure |-> d[2], codeSpan |-> codeSpan,
                  allowNesting |-> allowNesting]
       /\ ret' = FindClosure(src, d[1], d[2], codeSpan, allowNesting)
  /\ pc' = "FindClosure"
  /\ UNCHANGED src

NextClosure == CallFindClosure

SpecClosure == InitClosure /\ [][NextClosure]_vars

(***************************************************************************)
(* What the scan of FindClosure amounts to when no code span is respected. *)
(* A byte is escaped when it is a punctuation byte preceded by an odd      *)
(* number of backslashes, and it is an escaping backslash when it is       *)
(* preceded by an even number of backslashes and followed by a punctuation *)
(* byte; every other byte is live.  A live closure byte closes, a live     *)
(* opener byte (that is not the closure byte) opens.                       *)
(***************************************************************************)
BackslashesBefore(bs, j) ==
  CHOOSE n \in 0..j :
    /\ \A m \in (j - n)..(j - 1) : At(bs, m) = Ch.bslash
    /\ n = j \/ At(bs, j - n - 1) # Ch.bslash

IsLive(bs, j) ==
  LET odd == BackslashesBefore(bs, j) % 2 = 1 IN
  /\ ~(odd /\ IsPunct(At(bs, j)))
  /\ ~(/\ At(bs, j) = Ch.bslash
       /\ ~odd
       /\ j + 1 < Len(bs)
       /\ IsPunct(At(bs, j + 1)))

Closes(bs, closure, j) == IsLive(bs, j) /\ At(bs, j) = closure

Opens(bs, opener, closure, j) ==
  IsLive(bs, j) /\ At(bs, j) = opener /\ At(bs, j) # closure

DepthAfter(bs, opener, closure, j) ==
  1 + Cardinality({m \in 0..j : Opens(bs, opener, closure, m)})
    - Cardinality({m \in 0..j : Closes(bs, closure, m)})

Least(S) == CHOOSE m \in S : \A n \in S : m <= n

BalancedClosure(bs, opener, closure, allowNesting) ==
  LET idx == 0..(Len(bs) - 1)
      zero == {j \in idx : /\ Closes(bs, closure, j)
                           /\ DepthAfter(bs, opener, closure, j) = 0}
      delim == {j \in idx : Closes(bs, closure, j) \/ Opens(bs, opener, closure, j)}
  IN  IF allowNesting
      THEN IF zero = {} THEN -1 ELSE Least(zero)
      ELSE IF delim # {} /\ Closes(bs, closure, Least(delim)) THEN Least(delim) ELSE -1

Parens(r) == r.opener = Ch.lparen /\ r.closure = Ch.rparen

\* C1: with codeSpan = false FindClosure skips every backslash-punctuation
\* pair, counts live closure bytes down and live opener bytes up from 1 and
\* returns the index of the closure byte that brings the count to zero; a
\* live opener without nesting, or the end of the window, gives -1.  On
\* "a(b)c)b" the result is the last ')' and on "a\)b)" it is not the
\* escaped ')'.
C1_ClosureCount ==
  (pc = "FindClosure" /\ ~arg.codeSpan) =>
    /\ ret = BalancedClosure(src, arg.opener, arg.closure, arg.allowNesting)
    /\ (src = ExampleNested /\ Parens(arg) /\ arg.allowNesting) => ret = 5
    /\ (src = ExampleEscaped /\ Parens(arg)) => ret = 4

C1_Witness ==
  /\ pc = "FindClosure"
  /\ ~arg.codeSpan
  /\ arg.allowNesting
  /\ Parens(arg)
  /\ src = ExampleNestedEscaped
  /\ ret = 4

(***************************************************************************)
(* The scan with code spans as it is documented: a backtick run opens a    *)
(* span or, with the same length, closes it, and the scan goes on at the   *)
(* byte that follows the run.                                              *)
(***************************************************************************)
RECURSIVE CodeSpanClosureFrom(_, _, _, _, _, _, _)
CodeSpanClosureFrom(bs, opener, closure, allowNesting, i, opened, span) ==
  IF ~(i < Len(bs)) THEN -1
  ELSE
    LET c == At(bs, i) IN
    IF c = Ch.btick THEN
      LET j == BacktickRunEnd(bs, i) IN
      CodeSpanClosureFrom(bs, opener, closure, allowNesting, j, opened,
                          IF span = 0 THEN j - i
                          ELSE IF j - i = span THEN 0 ELSE span)
    ELSE IF c = Ch.bslash /\ i < Len(bs) - 1 /\ IsPunct(At(bs, i + 1)) THEN
      CodeSpanClosureFrom(bs, opener, closure, allowNesting, i + 2, opened, span)
    ELSE IF span = 0 /\ c = closure THEN
      IF opened = 1 THEN i
      ELSE CodeSpanClosureFrom(bs, opener, closure, allowNesting, i + 1, opened - 1, span)
    ELSE IF span = 0 /\ c = opener THEN
      IF ~allowNesting THEN -1
      ELSE CodeSpanClosureFrom(bs, opener, closure, allowNesting, i + 1, opened + 1, span)
    ELSE CodeSpanClosureFrom(bs, opener, closure, allowNesting, i + 1, opened, span)

\* C2: with codeSpan = true a backtick run opens a code span, a run of the
\* same length closes it, bytes inside are not evaluated and every byte
\* outside is, the byte right after a backtick run included; on "`a)b`)"
\* the result is 5.
C2_CodeSpanClosure ==
  (pc = "FindClosure" /\ arg.codeSpan) =>
    /\ ret = CodeSpanClosureFrom(src, arg.opener, arg.closure, arg.allowNesting, 0, 1, 0)
    /\ (src = ExampleCodeSpan /\ Parens(arg)) => ret = 5

(***************************************************************************)
(* The windows the attribute parser is applied to: every window of up to   *)
(* MaxAttrLen bytes over the bytes the block driver tells apart, every     *)
(* window of up to MaxTokenLen bytes over the bytes a #id / .class token   *)
(* is made of, and the attribute blocks "{" t1 sep t2 ... tn "}" built     *)
(* from 1..MaxTokens tokens of AttrTokens.  A token carries the offsets of *)
(* its name and of its value, relative to its first byte.                  *)
(***************************************************************************)
AttrAlphabet ==
  {Ch.lbrace, Ch.rbrace, Ch.hash, Ch.a, Ch.sp, Ch.eq, Ch.dquote, Ch.bslash}

AttrTokenAlphabet ==
  {Ch.sp, Ch.hash, Ch.dot, Ch.a, Ch.minus, Ch.underscore, Ch.rbrace}

TokId ==
  [bytes |-> <<Ch.hash, Ch.i, Ch.d>>, marker |-> TRUE,
   name |-> <<0, 1>>, value |-> <<1, 3>>]

TokClass ==
  [bytes |-> <<Ch.dot, Ch.c, Ch.l, Ch.s>>, marker |-> TRUE,
   name |-> <<0, 1>>, value |-> <<1, 4>>]

TokDoubleQuoted ==
  [bytes |-> <<Ch.k, Ch.e, Ch.y, Ch.eq, Ch.dquote, Ch.v, Ch.sp, Ch.a, Ch.dquote>>,
   marker |-> FALSE, name |-> <<0, 3>>, value |-> <<5, 8>>]

TokSingleQuoted ==
  [bytes |-> <<Ch.a, Ch.eq, Ch.squote, Ch.rbrace, Ch.squote>>,
   marker |-> FALSE, name |-> <<0, 1>>, value |-> <<3, 4>>]

TokBare ==
  [bytes |-> <<Ch.k, Ch.minus, Ch.a, Ch.eq, Ch.v, Ch.dot, Ch.one>>,
   marker |-> FALSE, name |-> <<0, 3>>, value |-> <<4, 7>>]

AttrTokens == {TokId, TokClass, TokDoubleQuoted, TokSingleQuoted, TokBare}

AttrSeparators == {<<Ch.sp>>, <<Ch.nl, Ch.tab>>}

TokenLists == UNION { [1..n -> AttrTokens] : n \in 1..MaxTokens }

RECURSIVE JoinTokens(_, _, _)
JoinTokens(ts, sep, n) ==
  IF n = 0 THEN <<>>
  ELSE IF n = 1 THEN ts[1].bytes
  ELSE JoinTokens(ts, sep, n - 1) \o sep \o ts[n].bytes

AttrBlock(ts, sep) == <<Ch.lbrace>> \o JoinTokens(ts, sep, Len(ts)) \o <<Ch.rbrace>>

\* Where token n of the block starts: after '{', the tokens before it and
\* their separators.
TokenStart(ts, sep, n) ==
  IF n = 1 THEN 1 ELSE 1 + Len(JoinTokens(ts, sep, n - 1)) + Len(sep)

AttrBlocks ==
  { [window |-> AttrBlock(ts, sep), tokens |-> ts, sep |-> sep] :
      ts \in TokenLists, sep \in AttrSeparators }

ExampleAttrBlock == AttrBlock(<<TokId, TokClass, TokDoubleQuoted>>, <<Ch.sp>>)

AttrInputs ==
  BoundedSeq(AttrAlphabet, MaxAttrLen)
    \cup BoundedSeq(AttrTokenAlphabet, MaxTokenLen)
    \cup { blk.window : blk \in AttrBlocks }

InitAttr ==
  /\ pc = "ready"
  /\ src \in AttrInputs
  /\ arg = <<>>
  /\ ret = <<>>

CallFindAttributeIndex ==
  /\ pc = "ready"
  /\ \E canEscapeQuotes \in BOOLEAN :
       /\ arg' = [canEscapeQuotes |-> canEscapeQuotes]
       /\ ret' = FindAttributeIndex(src, canEscapeQuotes)
  /\ pc' = "FindAttributeIndex"
  /\ UNCHANGED src

CallFindAttributeIndiciesReverse ==
  /\ pc = "ready"
  /\ \E canEscapeQuotes \in BOOLEAN :
       /\ arg' = [canEscapeQuotes |-> canEscapeQuotes]
       /\ ret' = FindAttributeIndiciesReverse(src, canEscapeQuotes)
  /\ pc' = "FindAttributeIndiciesReverse"
  /\ UNCHANGED src

NextAttr == CallFindAttributeIndex \/ CallFindAttributeIndiciesReverse

SpecAttr == InitAttr /\ [][NextAttr]_vars

\* The record the driver must give for token n of a block: the absolute
\* offsets of the token's name and value.
ExpectedRecord(ts, sep, n) ==
  LET at == TokenStart(ts, sep, n) IN
  <<at + ts[n].name[1], at + ts[n].name[2], at + ts[n].value[1], at + ts[n].value[2]>>

\* C3: on a block '{' t1 .. tn '}' of well-formed tokens separated by
\* whitespace, with '}' the last byte, FindAttributeIndiciesReverse
\* returns, for both values of canEscapeQuotes, exactly n records in source
\* order with absolute offsets, a quoted value's offsets lying inside its
\* quotes; on {#id .cls key="v a"} the third record is key = "v a".
C3_AttrBlockRecords ==
  pc = "FindAttributeIndiciesReverse" =>
    /\ \A blk \in AttrBlocks :
         blk.window = src =>
           /\ ~ret.panic
           /\ Len(ret.result) = Len(blk.tokens)
           /\ \A n \in 1..Len(blk.tokens) :
                LET want == ExpectedRecord(blk.tokens, blk.sep, n)
                    got == ret.result[n]
                IN  /\ got[1] = want[1]
                    /\ got[4] = want[4]
                    /\ ~blk.tokens[n].marker =>
                         /\ got = want
                         /\ At(src, got[3] - 1) \in {Ch.dquote, Ch.squote} =>
                              /\ At(src, got[4]) = At(src, got[3] - 1)
                              /\ \A m \in got[3]..(got[4] - 1) :
                                   At(src, m) # At(src, got[3] - 1)
    /\ src = ExampleAttrBlock =>
         /\ Len(ret.result) = 3
         /\ Slice(src, ret.result[3][1], ret.result[3][2]) = <<Ch.k, Ch.e, Ch.y>>
         /\ Slice(src, ret.result[3][3], ret.result[3][4]) = <<Ch.v, Ch.sp, Ch.a>>

C3_Witness ==
  /\ pc = "FindAttributeIndiciesReverse"
  /\ src = ExampleAttrBlock
  /\ ~ret.panic
  /\ ret.result = <<<<1, 2, 2, 4>>, <<5, 6, 6, 9>>, <<10, 13, 15, 18>>>>

\* C4: FindAttributeIndiciesReverse is total: on every window, for both
\* values of canEscapeQuotes, it returns records or none without reading
\* outside the window, and it returns none when an unescaped '{' is the
\* last byte or the tokens run to the end of the window with no '}'.
C4_AttrBlockTotal ==
  pc = "FindAttributeIndiciesReverse" =>
    /\ ~ret.panic
    /\ (Len(src) > 0 /\ At(src, Len(src) - 1) # Ch.rbrace) => ret.result = <<>>

\* The first significant byte of a window and the end of the #id / .class
\* token that starts there.
FirstSignificant(b) == Least({j \in 0..(Len(b) - 1) : ~IsSpace(At(b, j))})

EndsAttrToken(c) == IsSpace(c) \/ (IsPunct(c) /\ c \notin {Ch.underscore, Ch.minus})

MarkerTokenEnd(b, s) ==
  Least({j \in (s + 1)..(Len(b) - 1) : EndsAttrToken(At(b, j))} \cup {Len(b)})

StartsWithMarker(b) ==
  /\ \E j \in 0..(Len(b) - 1) : ~IsSpace(At(b, j))
  /\ At(b, FirstSignificant(b)) \in {Ch.hash, Ch.dot}

RefAlphabet == {Ch.amp, Ch.hash, Ch.x, Ch.six, Ch.semi}

RefAffixes == {<<>>, <<Ch.a>>}

DecimalRefs ==
  { pre \o <<Ch.amp, Ch.hash>> \o ds \o <<Ch.semi>> \o suf :
      ds \in BoundedSeq({Ch.zero, Ch.one, Ch.nine}, MaxDigits),
      pre \in RefAffixes, suf \in RefAffixes }

HexRefs ==
  { <<Ch.amp, Ch.hash, xx>> \o hs \o <<Ch.semi>> :
      hs \in BoundedSeq({Ch.zero, Ch.one, Ch.f}, MaxHexDigits), xx \in {Ch.x, Ch.X} }

ExampleRef65 == <<Ch.amp, Ch.hash, Ch.six, Ch.five, Ch.semi>>

ExampleRef065 == <<Ch.amp, Ch.hash, Ch.zero, Ch.six, Ch.five, Ch.semi>>

ExampleRefHex41 == <<Ch.amp, Ch.hash, Ch.x, Ch.four, Ch.one, Ch.semi>>

ExampleRefSurrogate ==
  <<Ch.amp, Ch.hash, Ch.X, Ch.D, Ch.eight, Ch.zero, Ch.zero, Ch.semi>>

RefInputs ==
  BoundedSeq(RefAlphabet, MaxRefLen) \cup DecimalRefs \cup HexRefs
    \cup {ExampleRef65, ExampleRef065, ExampleRefHex41, ExampleRefSurrogate}

InitRef ==
  /\ pc = "ready"
  /\ src \in RefInputs
  /\ arg = <<>>
  /\ ret = <<>>

CallResolveNumericReferences ==
  /\ pc = "ready"
  /\ arg' = <<>>
  /\ ret' = ResolveNumericReferences(src)
  /\ pc' = "ResolveNumericReferences"
  /\ UNCHANGED src

NextRef == CallResolveNumericReferences

SpecRef == InitRef /\ [][NextRef]_vars

(***************************************************************************)
(* Numeric references as they are documented.  RunEnd is the end of the    *)
(* run of digits that starts at from; a reference at p is "&#", 1..7       *)
(* decimal digits, ";" or "&#x" / "&#X", hex digits, ";".  PlaceValue is   *)
(* the value of the digits in the base, leading zeros included.            *)
(***************************************************************************)
RunEnd(b, from, digits) ==
  Least({j \in from..(Len(b) - 1) : At(b, j) \notin digits} \cup {Len(b)})

DecimalDigits == 48..57

HexDigits == (48..57) \cup (65..70) \cup (97..102)

DecimalRefAt(b, p) ==
  /\ p + 2 < Len(b)
  /\ At(b, p) = Ch.amp /\ At(b, p + 1) = Ch.hash
  /\ LET q == RunEnd(b, p + 2, DecimalDigits)
     IN  q - (p + 2) \in 1..7 /\ q < Len(b) /\ At(b, q) = Ch.semi

HexRefAt(b, p) ==
  /\ p + 3 < Len(b)
  /\ At(b, p) = Ch.amp /\ At(b, p + 1) = Ch.hash /\ At(b, p + 2) \in {Ch.x, Ch.X}
  /\ LET q == RunEnd(b, p + 3, HexDigits)
     IN  q - (p + 3) >= 1 /\ q < Len(b) /\ At(b, q) = Ch.semi

RECURSIVE PlaceValue(_, _)
PlaceValue(ds, base) ==
  IF ds = <<>> THEN 0
  ELSE LET n == PlaceValue(SubSeq(ds, 1, Len(ds) - 1), base) * base
                  + DigitValue(ds[Len(ds)])
       IN  IF n > MaxRune THEN AboveMaxRune ELSE n

ScalarOrReplacement(n) ==
  IF n = 0 \/ n > MaxRune \/ (n >= 55296 /\ n <= 57343) THEN 65533 ELSE n

RECURSIVE Decoded(_, _)
Decoded(b, p) ==
  IF p >= Len(b) THEN <<>>
  ELSE IF DecimalRefAt(b, p) THEN
    LET q == RunEnd(b, p + 2, DecimalDigits)
    IN  EncodeRune(ScalarOrReplacement(PlaceValue(Slice(b, p + 2, q), 10)))
          \o Decoded(b, q + 1)
  ELSE IF HexRefAt(b, p) THEN
    LET q == RunEnd(b, p + 3, HexDigits)
    IN  EncodeRune(ScalarOrReplacement(PlaceValue(Slice(b, p + 3, q), 16)))
          \o Decoded(b, q + 1)
  ELSE <<At(b, p)>> \o Decoded(b, p + 1)

Ampersands(b) == {j \in 0..(Len(b) - 1) : At(b, j) = Ch.amp}

\* C5: a window whose only '&' starts "&#" + 1..7 decimal digits + ";" or
\* "&#x"/"&#X" + hex digits + ";" is returned with the reference replaced
\* by the UTF-8 encoding of the digits' base-10 (leading zeros included)
\* or base-16 value, or of U+FFFD when the value is zero or no scalar
\* value; "&#065;" and "&#65;" both give "A".
C5_NumericDecoded ==
  pc = "ResolveNumericReferences" =>
    /\ \A p \in Ampersands(src) :
         (Ampersands(src) = {p} /\ (DecimalRefAt(src, p) \/ HexRefAt(src, p))) =>
           ~ret.panic /\ ret.bytes = Decoded(src, 0)
    /\ src \in {ExampleRef65, ExampleRef065, ExampleRefHex41} =>
         ~ret.panic /\ ret.bytes = <<Ch.A>>

\* C6: ResolveNumericReferences is total and leaves malformed references
\* alone: on every window it returns without reading outside the window,
\* and a window in which no '&' starts a well-formed numeric reference is
\* returned byte for byte.
C6_NumericTotal ==
  pc = "ResolveNumericReferences" =>
    /\ ~ret.panic
    /\ (\A p \in Ampersands(src) : ~DecimalRefAt(src, p) /\ ~HexRefAt(src, p)) =>
         ret.bytes = src

(***************************************************************************)
(* The windows the escapers are applied to: every window of up to          *)
(* MaxEscLen bytes over a hex letter, a letter that is no hex digit, '%',  *)
(* the backslash, '&', the space, a byte that is no UTF-8 lead byte and a  *)
(* two-byte lead byte.                                                     *)
(***************************************************************************)
EscAlphabet ==
  {Ch.a, Ch.G, Ch.percent, Ch.bslash, Ch.amp, Ch.sp, Ch.cont, Ch.lead2}

EscInputs == BoundedSeq(EscAlphabet, MaxEscLen)

InitEsc ==
  /\ pc = "ready"
  /\ src \in EscInputs
  /\ arg = <<>>
  /\ ret = <<>>

CallEscapeHTML ==
  /\ pc = "ready"
  /\ arg' = <<>>
  /\ ret' = EscapeHTML(src)
  /\ pc' = "EscapeHTML"
  /\ UNCHANGED src

CallUnescapePunctuations ==
  /\ pc = "ready"
  /\ arg' = <<>>
  /\ ret' = UnescapePunctuations(src)
  /\ pc' = "UnescapePunctuations"
  /\ UNCHANGED src

CallURLEscape ==
  /\ pc = "ready"
  /\ \E resolveReference \in BOOLEAN :
       /\ arg' = [resolveReference |-> resolveReference]
       /\ ret' = URLEscape(src, resolveReference)
  /\ pc' = "URLEscape"
  /\ UNCHANGED src

NextEsc == CallEscapeHTML \/ CallUnescapePunctuations \/ CallURLEscape

SpecEsc == InitEsc /\ [][NextEsc]_vars

(***************************************************************************)
(* URL escaping as it is documented, for windows of one-byte characters:   *)
(* a URL-safe byte and a "%XX" triplet are kept, a space becomes "%20",    *)
(* and any other byte, a '%' that starts no triplet included, becomes its  *)
(* percent-encoding.                                                       *)
(***************************************************************************)
TripletAt(v, i) ==
  /\ At(v, i) = Ch.percent
  /\ i + 2 < Len(v)
  /\ IsHexDecimal(At(v, i + 1))
  /\ IsHexDecimal(At(v, i + 2))

RECURSIVE PercentEncoded(_, _)
PercentEncoded(v, i) ==
  IF i >= Len(v) THEN <<>>
  ELSE IF TripletAt(v, i) THEN Slice(v, i, i + 3) \o PercentEncoded(v, i + 3)
  ELSE IF urlEscapeTable(At(v, i)) = 1 THEN <<At(v, i)>> \o PercentEncoded(v, i + 1)
  ELSE <<Ch.percent, UpperHex(At(v, i) \div 16), UpperHex(At(v, i) % 16)>>
         \o PercentEncoded(v, i + 1)

IsAscii(v) == \A n \in 1..Len(v) : v[n] <= 127

\* C7: URLEscape(v, false) passes a '%' through exactly when two hex
\* digits follow it, wherever it stands; a '%' that is not followed by two
\* hex digits is percent-encoded like any other byte outside the URL-safe
\* set.
C7_PercentTriplets ==
  (pc = "URLEscape" /\ ~arg.resolveReference /\ IsAscii(src)) =>
    ~ret.panic /\ ret.bytes = PercentEncoded(src, 0)

\* A window that holds nothing for URLEscape to change: URL-safe bytes,
\* "%XX" triplets and bytes that are no UTF-8 lead byte.
RECURSIVE NothingToEscape(_, _)
NothingToEscape(v, i) ==
  IF i >= Len(v) THEN TRUE
  ELSE IF TripletAt(v, i) THEN NothingToEscape(v, i + 3)
  ELSE /\ urlEscapeTable(At(v, i)) = 1 \/ utf8lenTable(At(v, i)) = 99
       /\ NothingToEscape(v, i + 1)

HasHTMLSpecial(v) ==
  \E n \in 1..Len(v) : v[n] \in {Ch.dquote, Ch.amp, Ch.lt, Ch.gt}

HasEscapedPunct(v) ==
  \E n \in 1..(Len(v) - 1) : v[n] = Ch.bslash /\ IsPunct(v[n + 1])

Untouched == ~ret.panic /\ ~ret.copied /\ ret.bytes = src

\* C9: on a window with nothing to transform (no '"', '&', '<', '>' for
\* EscapeHTML; no backslash before a punctuation byte for
\* UnescapePunctuations; only URL-safe bytes, %XX triplets and invalid
\* lead bytes for URLEscape without reference resolution) the operation
\* never writes to its buffer and returns the window itself.
C9_NothingToTransform ==
  /\ (pc = "EscapeHTML" /\ ~HasHTMLSpecial(src)) => Untouched
  /\ (pc = "UnescapePunctuations" /\ ~HasEscapedPunct(src)) => Untouched
  /\ (pc = "URLEscape" /\ ~arg.resolveReference /\ NothingToEscape(src, 0)) => Untouched

C9_Witness ==
  /\ pc = "URLEscape"
  /\ ~arg.resolveReference
  /\ src = <<Ch.cont, Ch.percent, Ch.a, Ch.a>>
  /\ ~ret.copied
  /\ ret.bytes = src

(***************************************************************************)
(* The windows FindURLIndex is applied to: a first byte, a run of up to    *)
(* MaxScheme equal scheme bytes, and a tail of up to MaxTail bytes.        *)
(***************************************************************************)
RECURSIVE Repeat(_, _)
Repeat(c, n) == IF n = 0 THEN <<>> ELSE <<c>> \o Repeat(c, n - 1)

URLInputs ==
  { first \o Repeat(c, n) \o tail :
      first \in {<<>>, <<Ch.a>>, <<Ch.one>>},
      c \in {Ch.Z, Ch.plus},
      n \in 0..MaxScheme,
      tail \in BoundedSeq({Ch.colon, Ch.slash, Ch.gt, Ch.sp}, MaxTail) }

InitURL ==
  /\ pc = "ready"
  /\ src \in URLInputs
  /\ arg = <<>>
  /\ ret = <<>>

CallFindURLIndex ==
  /\ pc = "ready"
  /\ arg' = <<>>
  /\ ret' = FindURLIndex(src)
  /\ pc' = "FindURLIndex"
  /\ UNCHANGED src

NextURL == CallFindURLIndex

SpecURL == InitURL /\ [][NextURL]_vars

(***************************************************************************)
(* [A-Za-z][A-Za-z0-9.+-]{1,31}:[^<>\x00-\x20]* as a predicate on windows. *)
(***************************************************************************)
IsLetter(c) == (c >= 65 /\ c <= 90) \/ (c >= 97 /\ c <= 122)

IsSchemeChar(c) ==
  IsLetter(c) \/ (c >= 48 /\ c <= 57) \/ c \in {Ch.dot, Ch.plus, Ch.minus}

SchemeLength(b) ==
  Least({j \in 1..(Len(b) - 1) : ~IsSchemeChar(At(b, j))} \cup {Len(b)})

HasScheme(b) ==
  /\ Len(b) > 0
  /\ IsLetter(At(b, 0))
  /\ SchemeLength(b) \in 2..32
  /\ SchemeLength(b) < Len(b)
  /\ At(b, SchemeLength(b)) = Ch.colon

StopsURL(c) == c <= 32 \/ c = Ch.lt \/ c = Ch.gt

\* C8: FindURLIndex(b) is non-negative iff b starts with a letter followed
\* by 1 to 31 further scheme characters (a scheme of 2 to 32 bytes) and
\* then ':'; the index is that of the first byte after the ':' that is
\* <= 0x20, '<' or '>', or len(b).  For a scheme of length 1 or longer
\* than 32 it is -1.
C8_URLIndex ==
  pc = "FindURLIndex" =>
    IF HasScheme(src)
    THEN ret = Least({j \in (SchemeLength(src) + 1)..(Len(src) - 1) :
                        StopsURL(At(src, j))} \cup {Len(src)})
    ELSE ret = -1

(***************************************************************************)
(* Windows for the restart of FindAttributeIndiciesReverse: a candidate    *)
(* that fails before its last byte (unknown token, '}' with more after it, *)
(* '=' without a value, tokens up to the next '{'), followed by a block of *)
(* well-formed tokens that ends the window; and the short windows over     *)
(* AttrAlphabet, where candidates fail in every other way.                 *)
(***************************************************************************)
FailedCandidates ==
  { <<Ch.lbrace, Ch.hash, Ch.a, Ch.sp, Ch.x, Ch.sp>>,
    <<Ch.lbrace, Ch.sp, Ch.x, Ch.sp>>,
    <<Ch.lbrace, Ch.hash, Ch.a, Ch.rbrace, Ch.sp>>,
    <<Ch.lbrace, Ch.k, Ch.eq>>,
    <<Ch.lbrace, Ch.a, Ch.eq, Ch.x, Ch.sp>>,
    <<Ch.lbrace, Ch.hash, Ch.a>>,
    <<Ch.lbrace>> }

ExampleRetry ==
  <<Ch.lbrace, Ch.hash, Ch.a, Ch.sp, Ch.x, Ch.sp, Ch.lbrace, Ch.hash, Ch.b, Ch.rbrace>>

RetryInputs ==
  { cand \o blk.window : cand \in FailedCandidates, blk \in AttrBlocks }
    \cup FailedCandidates
    \cup {ExampleRetry}
    \cup BoundedSeq(AttrAlphabet, MaxAttrLen)

InitRetry ==
  /\ pc = "ready"
  /\ src \in RetryInputs
  /\ arg = <<>>
  /\ ret = <<>>

NextRetry == CallFindAttributeIndiciesReverse

SpecRetry == InitRetry /\ [][NextRetry]_vars

(***************************************************************************)
(* The search as it is documented: an attempt that does not end on a '}'   *)
(* that is the last byte of the window is dropped with its records, and    *)
(* the search goes on after the attempt for the next unescaped '{'.        *)
(***************************************************************************)
RECURSIVE RestartingSearch(_, _, _)
RestartingSearch(b, canEscapeQuotes, i) ==
  LET as == FindOpenBrace(b, i) IN
  IF as < 0 THEN <<>>
  ELSE
    LET st == ReadAttributes(b, canEscapeQuotes, as, as, <<>>) IN
    IF st.as = Len(b) - 1 /\ At(b, st.as) = Ch.rbrace
    THEN st.result
    ELSE RestartingSearch(b, canEscapeQuotes, st.i)

NoBlankTail(b) == Len(b) = 0 \/ ~IsSpace(At(b, Len(b) - 1))

\* The records of a block that starts at offset off of the window.
RecordsAt(got, blk, off) ==
  /\ Len(got) = Len(blk.tokens)
  /\ \A n \in 1..Len(blk.tokens) :
       LET want == ExpectedRecord(blk.tokens, blk.sep, n) IN
       /\ got[n][1] = off + want[1]
       /\ got[n][4] = off + want[4]
       /\ ~blk.tokens[n].marker =>
            got[n] = <<off + want[1], off + want[2], off + want[3], off + want[4]>>

\* The candidate-and-block windows get exactly the block's records.
RetryKeepsValidBlock ==
  /\ \A cand \in FailedCandidates : \A blk \in AttrBlocks :
       src = cand \o blk.window =>
         ~ret.panic /\ RecordsAt(ret.result, blk, Len(cand))
  /\ src = ExampleRetry => ~ret.panic /\ ret.result = <<<<7, 8, 8, 9>>>>

\* C13: in FindAttributeIndiciesReverse an attempt started at an unescaped
\* '{' that does not end on a '}' that is the last byte of the window (or
\* is followed only by whitespace) is dropped with its records and the
\* search restarts at a strictly later position for the next unescaped
\* '{'; so a failed candidate followed by a valid block that ends the
\* window, as in "{#a x {#b}", gives exactly the valid block's records.
C13_Backtracking ==
  pc = "FindAttributeIndiciesReverse" =>
    /\ NoBlankTail(src) =>
         /\ ~ret.panic
         /\ ret.result = RestartingSearch(src, arg.canEscapeQuotes, 0)
    /\ RetryKeepsValidBlock

\* The same without the windows in which an attempt reads tokens up to the
\* end of the window: there the restart is as documented.
C13_RestartInsideWindow ==
  (pc = "FindAttributeIndiciesReverse" /\ ~ret.panic) =>
    /\ ret.result = RestartingSearch(src, arg.canEscapeQuotes, 0)
    /\ RetryKeepsValidBlock

(***************************************************************************)
(* UnescapePunctuations applied to a window and then to its own result.    *)
(* After the second call arg is the window that call was given (the first  *)
(* call's result) and ret the second call's result.                        *)
(***************************************************************************)
CallUnescapePunctuationsAgain ==
  /\ pc = "UnescapePunctuations"
  /\ arg' = ret.bytes
  /\ ret' = UnescapePunctuations(ret.bytes)
  /\ pc' = "UnescapePunctuationsAgain"
  /\ UNCHANGED src

NextUnescape == CallUnescapePunctuations \/ CallUnescapePunctuationsAgain

SpecUnescape == InitEsc /\ [][NextUnescape]_vars

(***************************************************************************)
(* The escape pairs of a window, read from its left end: a backslash that  *)
(* is not itself the second byte of a pair and has a punctuation byte      *)
(* after it.  An escaped backslash with a punctuation byte right after the *)
(* pair leaves a new pair in the result.                                   *)
(***************************************************************************)
RECURSIVE StartsPair(_, _)
StartsPair(s, j) ==
  /\ j + 1 < Len(s)
  /\ At(s, j) = Ch.bslash
  /\ IsPunct(At(s, j + 1))
  /\ (j = 0 \/ ~StartsPair(s, j - 1))

EscapedBackslashBeforePunct(s) ==
  \E j \in 0..(Len(s) - 3) :
    /\ StartsPair(s, j)
    /\ At(s, j + 1) = Ch.bslash
    /\ IsPunct(At(s, j + 2))

\* C12 (as stated): backslash-unescape is idempotent:
\* UnescapePunctuations(UnescapePunctuations(s)) = UnescapePunctuations(s)
\* for every s.
C12_UnescapeIdempotent ==
  pc = "UnescapePunctuationsAgain" => ~ret.panic /\ ret.bytes = arg

\* C12 (amended): UnescapePunctuations(UnescapePunctuations(s)) =
\* UnescapePunctuations(s) for every s in which no escaped backslash (a
\* "\\" pair) has a punctuation byte right after it; the second call then
\* writes nothing and returns its argument itself.
C12_UnescapeIdempotentNoPair ==
  (pc = "UnescapePunctuationsAgain" /\ ~EscapedBackslashBeforePunct(src)) =>
    ~ret.panic /\ ret.bytes = arg /\ ~ret.copied

C12_Witness ==
  /\ pc = "UnescapePunctuationsAgain"
  /\ src = <<Ch.bslash, Ch.bslash, Ch.a, Ch.bslash>>
  /\ ~EscapedBackslashBeforePunct(src)
  /\ arg = <<Ch.bslash, Ch.a, Ch.bslash>>
  /\ ret.bytes = arg

\* An escaped backslash with a punctuation byte after it is exactly what
\* makes the second call change its argument.
C12_PairUnescapedTwice ==
  (pc = "UnescapePunctuationsAgain" /\ EscapedBackslashBeforePunct(src)) =>
    ret.bytes # arg

(***************************************************************************)
(* The windows ReplaceSpaces is applied to: up to MaxSpacesLen bytes over  *)
(* two letters and three of the space bytes; the replacement is a space or *)
(* a '-'.                                                                  *)
(***************************************************************************)
SpacesAlphabet == {Ch.a, Ch.b, Ch.sp, Ch.tab, Ch.nl}

SpacesInputs == BoundedSeq(SpacesAlphabet, MaxSpacesLen)

InitSpaces ==
  /\ pc = "ready"
  /\ src \in SpacesInputs
  /\ arg = <<>>
  /\ ret = <<>>

CallReplaceSpaces ==
  /\ pc = "ready"
  /\ \E repl \in {Ch.sp, Ch.minus} :
       /\ arg' = [repl |-> repl]
       /\ ret' = ReplaceSpaces(src, repl)
  /\ pc' = "ReplaceSpaces"
  /\ UNCHANGED src

NextSpaces == CallReplaceSpaces

SpecSpaces == InitSpaces /\ [][NextSpaces]_vars

(***************************************************************************)
(* source with every maximal run of space bytes collapsed to one repl: the *)
(* first byte of a run gives repl, the other bytes of the run give         *)
(* nothing, and every other byte gives itself.                             *)
(***************************************************************************)
RECURSIVE CollapsedFrom(_, _, _)
CollapsedFrom(source, repl, j) ==
  IF j >= Len(source) THEN <<>>
  ELSE
    (IF ~IsSpace(At(source, j)) THEN <<At(source, j)>>
     ELSE IF j = 0 \/ ~IsSpace(At(source, j - 1)) THEN <<repl>>
     ELSE <<>>) \o CollapsedFrom(source, repl, j + 1)

Collapsed(source, repl) == CollapsedFrom(source, repl, 0)

\* C14: ReplaceSpaces(source, repl) is source with every maximal run of
\* space bytes replaced by exactly one repl byte and every other byte kept
\* in order, wherever the run is: at the start, in the middle, at the end,
\* and also when the only run is a trailing one.
C14_ReplaceSpaces ==
  pc = "ReplaceSpaces" => ret.bytes = Collapsed(src, arg.repl)

\* The same for the windows in which a byte that is no space comes after
\* some run of spaces.
C14_RunBeforeByte ==
  (pc = "ReplaceSpaces"
     /\ \E j \in 1..(Len(src) - 1) : IsSpace(At(src, j - 1)) /\ ~IsSpace(At(src, j))) =>
    ret.bytes = Collapsed(src, arg.repl)

(***************************************************************************)
(* A CopyOnWriteBuffer in use: it is created over a source, and then       *)
(* Write and WriteByte are called on it, one call per step.  ret is the    *)
(* buffer object, arg the arguments of the calls made so far, in call      *)
(* order (the byte of a WriteByte as a one-byte value).                    *)
(***************************************************************************)
CowAlphabet == {Ch.a, Ch.b}

InitCow ==
  /\ pc = "NewCopyOnWriteBuffer"
  /\ src \in BoundedSeq(CowAlphabet, MaxCowSource)
  /\ arg = <<>>
  /\ ret = NewCopyOnWriteBuffer(src)

CallWrite ==
  /\ pc \in {"NewCopyOnWriteBuffer", "Write", "WriteByte"}
  /\ Len(arg) < MaxWrites
  /\ \E value \in BoundedSeq(CowAlphabet, MaxWriteLen) :
       /\ ret' = Write(ret, value)
       /\ arg' = Append(arg, value)
  /\ pc' = "Write"
  /\ UNCHANGED src

CallWriteByte ==
  /\ pc \in {"NewCopyOnWriteBuffer", "Write", "WriteByte"}
  /\ Len(arg) < MaxWrites
  /\ \E c \in CowAlphabet :
       /\ ret' = WriteByte(ret, c)
       /\ arg' = Append(arg, <<c>>)
  /\ pc' = "WriteByte"
  /\ UNCHANGED src

NextCow == CallWrite \/ CallWriteByte

SpecCow == InitCow /\ [][NextCow]_vars

RECURSIVE Concat(_)
Concat(values) ==
  IF values = <<>> THEN <<>> ELSE Head(values) \o Concat(Tail(values))

\* C11: over any sequence of Write and WriteByte calls on a buffer created
\* from a source s: before the first call IsCopied() is false and Bytes()
\* is s; after the first call and in every later state IsCopied() is true
\* and Bytes() is the concatenation, in call order, of the bytes written,
\* with nothing of s copied in.
C11_CopyOnWrite ==
  pc \in {"NewCopyOnWriteBuffer", "Write", "WriteByte"} =>
    IF arg = <<>>
    THEN ~IsCopied(ret) /\ Bytes(ret) = src
    ELSE IsCopied(ret) /\ Bytes(ret) = Concat(arg)

C11_Witness ==
  /\ pc = "WriteByte"
  /\ src = <<Ch.a, Ch.b>>
  /\ Len(arg) = 3
  /\ Len(arg[1]) = 2
  /\ IsCopied(ret)
  /\ Bytes(ret) = <<Ch.b, Ch.b, Ch.a, Ch.b>>

(***************************************************************************)
(* The whole package: any of the windows above, and any one operation      *)
(* applied to it.                                                          *)
(***************************************************************************)
Init ==
  \/ InitClosure \/ InitAttr \/ InitRef \/ InitEsc \/ InitURL
  \/ InitRetry \/ InitSpaces \/ InitCow

Next ==
  \/ NextClosure \/ NextAttr \/ NextRef \/ NextEsc \/ NextURL
  \/ NextRetry \/ NextUnescape \/ NextSpaces \/ NextCow

Spec == Init /\ [][Next]_vars

====
